---- MODULE Spec2Model ----
(***************************************************************************)
(* A model of ib-database-sync: the Member record and its equality key     *)
(* (records.py), and the duplicate finder, the cross-source matcher and    *)
(* the conflict resolvers of ib_database_sync.py.                          *)
(*                                                                         *)
(* A Python string is a sequence of one-character strings; Python's None   *)
(* is the one-element sequence <<"None">>, which no string equals (the     *)
(* string 'None' is <<"N","o","n","e">>). Source names and unique ids are  *)
(* atoms of the same shape: <<"AirTable">>, <<"id1">>.                     *)
(***************************************************************************)
EXTENDS Naturals, Sequences, FiniteSets, TLC

VARIABLES
    heap,            \* the Member objects: object id -> fields
    an_members,      \* ActionNetwork's list of members (object ids)
    at_members,      \* AirTable's list of members (object ids)
    field_set,       \* the lens: module-level loop variable of __main__
    pc,              \* where the program is
    dicts,           \* the four maps built by get_merge_info
    all_members,     \* one representative per full-identity key
    idx,             \* position of find_duplicates_across in all_members
    merge_conflicts, \* list of MergeConflict (each its list of members)
    needs_sync,      \* list of members
    up_to_date,      \* list of members
    invoked,         \* per conflict: the resolvers invoked, with results
    pending,         \* fields ManualResolver's split has still to ask about
    entry_heap,      \* the heap as it was when the running resolver began
    an_dups,         \* duplicate groups within ActionNetwork
    at_dups,         \* duplicate groups within AirTable
    ci,              \* position of resolve_merge_conflicts in merge_conflicts
    unresolved,      \* resolve_merge_conflicts' list of unresolved conflicts
    wasResolved,     \* what MergeConflict.resolve returned, call by call
    nsets,           \* number of set() calls made on the records
    action,          \* the Action being serialized or applied
    connection,      \* the Connection do_action is called on
    serialized,      \* what Action.serialize returned
    try_count,       \* _request_helper's count of failed tries
    responses,       \* what each request of _request_helper met, in order
    raised,          \* the exception do_action has raised, if any
    cleans,          \* what the calls of get_clean returned, in order
    equivalence_fields_arg, \* get_merge_info's argument equivalence_fields
    actions,         \* the list of actions given to do_actions
    handled          \* what do_actions did with each action so far

vars == <<heap, an_members, at_members, field_set, pc, dicts, all_members,
          idx, merge_conflicts, needs_sync, up_to_date, invoked, pending,
          entry_heap, an_dups, at_dups, ci, unresolved, wasResolved, nsets,
          action, connection, serialized, try_count, responses, raised,
          cleans, equivalence_fields_arg, actions, handled>>

\* the variables of serializing and applying an action
Applying == <<action, connection, serialized, try_count, responses, raised>>

----------------------------------------------------------------------------
(* Values *)

None == <<"None">>

\* the variables of the calls of get_clean, get_merge_info and do_actions
Calls == <<cleans, equivalence_fields_arg, actions, handled>>

\* get_clean and do_actions have not been called, and get_merge_info is
\* given the lens of the loop of __main__
NoCalls ==
    /\ cleans = <<>> /\ actions = <<>> /\ handled = <<>>
    /\ equivalence_fields_arg = field_set

\* no action has been built, serialized or applied
NoAction ==
    /\ action = None /\ connection = None /\ serialized = <<>>
    /\ try_count = 0 /\ responses = <<>> /\ raised = None

\* Python's basestring check of get_clean
isinstance_basestring(s) == s # None

IdentityFields == {"first_name", "last_name", "email_address", "zip_code"}

\* HashFriendlyMember.equality_fields
equality_fields == <<"first_name", "last_name", "email_address", "zip_code">>

Whitespace == {" "}

\* str.lower() on one character
LowerChar(c) ==
    CASE c = "A" -> "a"
      [] c = "B" -> "b"
      [] OTHER -> c

\* str.lower()
lower(s) == [k \in 1..Len(s) |-> LowerChar(s[k])]

RECURSIVE lstrip(_)
lstrip(s) ==
    IF s # <<>> /\ Head(s) \in Whitespace THEN lstrip(Tail(s)) ELSE s

RECURSIVE rstrip(_)
rstrip(s) ==
    IF s # <<>> /\ s[Len(s)] \in Whitespace
    THEN rstrip(SubSeq(s, 1, Len(s) - 1))
    ELSE s

\* str.strip() taking one whitespace character off each end
strip_once(s) ==
    LET l == IF s # <<>> /\ Head(s) \in Whitespace THEN Tail(s) ELSE s
    IN IF l # <<>> /\ l[Len(l)] \in Whitespace
       THEN SubSeq(l, 1, Len(l) - 1)
       ELSE l

\* str.strip()
strip(s) == rstrip(lstrip(s))

----------------------------------------------------------------------------
(* records.py: Member and HashFriendlyMember *)

\* Member.__init__
Member(first_name, last_name, email_address, zip_code, last_edit, source_name, unique_id) ==
    [first_name    |-> first_name,
     last_name     |-> last_name,
     email_address |-> email_address,
     zip_code      |-> zip_code,
     unique_id     |-> unique_id,
     last_edit     |-> last_edit,
     source_name   |-> source_name,
     dirty         |-> FALSE,
     original_dict |-> <<>>]

\* Member.get
get(m, field) == m[field]

\* Member.set taking every call for a change
set_always_dirty(m, field, new_value) ==
    [m EXCEPT !.dirty = TRUE,
              !.original_dict =
                  [f \in (DOMAIN m.original_dict) \cup {field} |->
                      IF f = field THEN get(m, field)
                      ELSE m.original_dict[f]],
              ![field] = new_value]

\* Member.set not recording the value it replaces
set_no_original(m, field, new_value) ==
    IF get(m, field) # new_value
    THEN [m EXCEPT !.dirty = TRUE, ![field] = new_value]
    ELSE m

\* Member.set
set(m, field, new_value) ==
    LET curr_value == get(m, field) IN
    IF curr_value # new_value
    THEN [m EXCEPT !.dirty = TRUE,
                   !.original_dict =
                       [f \in (DOMAIN m.original_dict) \cup {field} |->
                           IF f = field THEN curr_value
                           ELSE m.original_dict[f]],
                   ![field] = new_value]
    ELSE m

\* Member.dirty_fields
dirty_fields(m) == DOMAIN m.original_dict

\* HashFriendlyMember.get_clean
get_clean(m, field) ==
    LET s == get(m, field) IN
    IF ~isinstance_basestring(s) THEN s
    ELSE LET cleaned == strip(lower(s)) IN
         IF cleaned = <<>> THEN None ELSE cleaned

\* hash_with reading the stored value where the code reads get_clean
hash_with_unclean(m, only_these_fields) ==
    LET fs == IF only_these_fields = None THEN equality_fields
              ELSE only_these_fields
    IN [k \in 1..Len(fs) |-> <<fs[k], get(m, fs[k])>>]

\* HashFriendlyMember.hash_with. str(dict) of the (field, value) pairs: the
\* text is fixed by the list of fields and the repr of each value, and is
\* modelled as the sequence of the pairs
hash_with(m, only_these_fields) ==
    LET fs == IF only_these_fields = None THEN equality_fields
              ELSE only_these_fields
    IN [k \in 1..Len(fs) |-> <<fs[k], get_clean(m, fs[k])>>]

----------------------------------------------------------------------------
(* Records under set() and hash_with(): the inputs *)

\* bound on the number of set() calls made on the two records
MaxSets == 2

a_str == <<"a">>

\* field values a source can deliver: None, '', ' ', 'a', ' A', 'b'
FieldValues == {None, <<>>, <<" ">>, a_str, <<" ", "A">>, <<"b">>}

MetadataFields == {"unique_id", "last_edit", "source_name"}

\* the unique id a source gives its id-th record
UniqueId(id) == <<"id", <<"0", "1", "2", "3", "4", "5", "6", "7", "8", "9">>[id + 1]>>

AN == <<"ActionNetwork">>
AT == <<"AirTable">>

\* the members of a set of fields, in the order of equality_fields
RECURSIVE FieldList(_, _)
FieldList(S, k) ==
    IF k > Len(equality_fields) THEN <<>>
    ELSE (IF equality_fields[k] \in S THEN <<equality_fields[k]>> ELSE <<>>)
         \o FieldList(S, k + 1)

\* the production lenses of __main__
equivalence_fields == {<<"last_name", "first_name">>, <<"email_address">>}

\* the values of only_these_fields: None (all fields), a production lens, or
\* any subset of the identity fields
FieldSets ==
    {None} \cup equivalence_fields
           \cup {FieldList(S, 1) : S \in SUBSET IdentityFields}

FieldsOf(fs) ==
    IF fs = None THEN IdentityFields ELSE {fs[k] : k \in 1..Len(fs)}

\* nothing has been matched or resolved
Idle_matching ==
    /\ an_members = <<>> /\ at_members = <<>>
    /\ dicts = <<>> /\ all_members = <<>> /\ idx = 0
    /\ merge_conflicts = <<>> /\ needs_sync = <<>> /\ up_to_date = <<>>
    /\ invoked = <<>> /\ pending = <<>> /\ entry_heap = <<>>
    /\ an_dups = <<>> /\ at_dups = <<>>
    /\ ci = 0 /\ unresolved = <<>> /\ wasResolved = <<>>

Idle == Idle_matching /\ NoAction /\ NoCalls

InitRecords ==
    /\ heap = [id \in {1, 2} |->
                 Member(a_str, a_str, a_str, a_str, None, AT, UniqueId(id))]
    /\ field_set \in FieldSets
    /\ pc = "records"
    /\ nsets = 0
    /\ Idle

\* one call of Member.set on one of the two records
SetField ==
    /\ pc = "records"
    /\ nsets < MaxSets
    /\ \E id \in DOMAIN heap, f \in IdentityFields \cup MetadataFields :
         \E v \in (IF f \in IdentityFields THEN FieldValues ELSE {<<"b">>}) :
            heap' = [heap EXCEPT ![id] = set(heap[id], f, v)]
    /\ nsets' = nsets + 1
    /\ UNCHANGED <<an_members, at_members, field_set, pc, dicts, all_members,
                   idx, merge_conflicts, needs_sync, up_to_date, invoked,
                   pending, entry_heap, an_dups, at_dups, ci, unresolved,
                   wasResolved, Applying, Calls>>

NextRecords == SetField

SpecRecords == InitRecords /\ [][NextRecords]_vars

----------------------------------------------------------------------------
(* C1 *)

\* C1: two records have the same key under a field set exactly when their
\* normalized values agree on every field of the set, whatever the other
\* fields (identity or metadata) hold.
C1_EqualityKeyIff ==
    pc = "records" =>
        ((hash_with(heap[1], field_set) = hash_with(heap[2], field_set))
         <=> (\A f \in FieldsOf(field_set) :
                get_clean(heap[1], f) = get_clean(heap[2], f)))

\* two records with equal keys under the lens although a lens field differs
\* in case and whitespace and a field outside the lens and a metadata field
\* differ
C1_Witness ==
    /\ pc = "records"
    /\ field_set = <<"last_name", "first_name">>
    /\ heap[1].last_name = <<" ", "A">> /\ heap[2].last_name = a_str
    /\ heap[1].email_address # heap[2].email_address
    /\ hash_with(heap[1], field_set) = hash_with(heap[2], field_set)

----------------------------------------------------------------------------
(* ib_database_sync.py: Member, hash_members, find_duplicates_within,      *)
(* get_merge_info and find_duplicates_across                               *)

\* bound on the number of records the two sources hold together
MaxMembers == 3

\* Member.hash_with leaving the email address out of the full key
Member_hash_with_no_email(m, only_these_fields) ==
    LET fs == IF only_these_fields = None
              THEN <<"first_name", "last_name", "zip_code">>
              ELSE only_these_fields
    IN [k \in 1..Len(fs) |-> <<fs[k], m[fs[k]]>>]

\* Member.hash_with of ib_database_sync.py: str(dict) of the stored values
Member_hash_with(m, only_these_fields) ==
    LET fs == IF only_these_fields = None THEN equality_fields
              ELSE only_these_fields
    IN [k \in 1..Len(fs) |-> <<fs[k], m[fs[k]]>>]

\* Member.get of ib_database_sync.py
Member_get(m, field) == m[field]

\* Member.set marking the member dirty whatever the value
Member_set_always_dirty(m, field, value) ==
    [m EXCEPT !.dirty = TRUE, ![field] = value]

\* Member.set of ib_database_sync.py
Member_set(m, field, value) ==
    IF m[field] # value
    THEN [m EXCEPT !.dirty = TRUE, ![field] = value]
    ELSE m

\* the orders in which the keys S of a dict (or the elements of a set) can
\* come out when it is iterated
DictOrders(S) ==
    {o \in [1..Cardinality(S) -> S] :
        \A j, k \in 1..Cardinality(S) : j # k => o[j] # o[k]}

\* the object ids of list `members` whose key is `key`, in list order
RECURSIVE MembersWithKey(_, _, _, _)
MembersWithKey(h, members, only_these_fields, key) ==
    IF members = <<>> THEN <<>>
    ELSE (IF Member_hash_with(h[Head(members)], only_these_fields) = key
          THEN <<Head(members)>> ELSE <<>>)
         \o MembersWithKey(h, Tail(members), only_these_fields, key)

\* hash_members: the dict key -> list of members, over heap h
hash_members(h, members, only_these_fields) ==
    LET keys == {Member_hash_with(h[members[k]], only_these_fields) :
                    k \in 1..Len(members)}
    IN [key \in keys |-> MembersWithKey(h, members, only_these_fields, key)]

\* find_duplicates_within keeping every group, also those of one member
find_duplicates_within_all(hm, keys) == [k \in 1..Len(keys) |-> hm[keys[k]]]

\* find_duplicates_within, the dict being iterated in the order `keys`
RECURSIVE find_duplicates_within(_, _)
find_duplicates_within(hm, keys) ==
    IF keys = <<>> THEN <<>>
    ELSE (IF Len(hm[Head(keys)]) > 1 THEN <<hm[Head(keys)]>> ELSE <<>>)
         \o find_duplicates_within(hm, Tail(keys))

\* the resolvers find_duplicates_across gives every MergeConflict
resolvers == <<"MissingFieldResolver", "ManualResolver">>

\* MergeConflict.__init__
MergeConflict(members, rs) == [members |-> members, resolvers |-> rs]

\* the records a source can deliver: last names 'a' and ' A' with email
\* None or 'a', and last name 'a' with email 'b'
SourceRecords(source_name, id) ==
    {Member(a_str, n[1], n[2], None, None, source_name, UniqueId(id)) :
        n \in ({a_str, <<" ", "A">>} \X {None, a_str})
                  \cup {<<a_str, <<"b">>>>}}

Init ==
    /\ \E n_an, n_at \in 0..MaxMembers :
         /\ n_an + n_at <= MaxMembers
         /\ an_members = [k \in 1..n_an |-> k]
         /\ at_members = [k \in 1..n_at |-> n_an + k]
         /\ heap \in [1..(n_an + n_at) ->
                        UNION {SourceRecords(s, id) :
                                 s \in {AN, AT}, id \in 1..MaxMembers}]
         /\ \A id \in 1..(n_an + n_at) :
               /\ heap[id].source_name = (IF id <= n_an THEN AN ELSE AT)
               /\ heap[id].unique_id =
                     UniqueId(IF id <= n_an THEN id ELSE id - n_an)
    /\ field_set \in equivalence_fields
    /\ pc = "start"
    /\ dicts = <<>> /\ all_members = <<>> /\ idx = 0
    /\ merge_conflicts = <<>> /\ needs_sync = <<>> /\ up_to_date = <<>>
    /\ invoked = <<>> /\ pending = <<>> /\ entry_heap = <<>>
    /\ an_dups = <<>> /\ at_dups = <<>>
    /\ ci = 0 /\ unresolved = <<>> /\ wasResolved = <<>>
    /\ nsets = 0
    /\ NoAction
    /\ NoCalls

\* get_merge_info up to its call of find_duplicates_across. The body reads
\* the module-level field_set, not its parameter equivalence_fields.
get_merge_info ==
    /\ pc = "start"
    /\ LET an_dict_all_fields  == hash_members(heap, an_members, None)
           at_dict_all_fields  == hash_members(heap, at_members, None)
           an_dict_some_fields == hash_members(heap, an_members, field_set)
           at_dict_some_fields == hash_members(heap, at_members, field_set)
           all_members_keys == (DOMAIN an_dict_all_fields)
                                  \cup (DOMAIN at_dict_all_fields)
       IN /\ dicts' = [an_all  |-> an_dict_all_fields,
                       at_all  |-> at_dict_all_fields,
                       an_some |-> an_dict_some_fields,
                       at_some |-> at_dict_some_fields]
          /\ \E keys \in DictOrders(DOMAIN an_dict_some_fields) :
                an_dups' = find_duplicates_within(an_dict_some_fields, keys)
          /\ \E keys \in DictOrders(DOMAIN at_dict_some_fields) :
                at_dups' = find_duplicates_within(at_dict_some_fields, keys)
          /\ \E keys \in DictOrders(all_members_keys) :
                all_members' =
                    [k \in 1..Len(keys) |->
                        IF keys[k] \in DOMAIN an_dict_all_fields
                        THEN an_dict_all_fields[keys[k]][1]
                        ELSE at_dict_all_fields[keys[k]][1]]
          /\ pc' = IF all_members_keys = {} THEN "matched" ELSE "across"
    /\ idx' = 1
    /\ UNCHANGED <<heap, an_members, at_members, field_set, merge_conflicts,
                   needs_sync, up_to_date, invoked, pending, entry_heap,
                   ci, unresolved, wasResolved, nsets, Applying, Calls>>

\* members_conflicted leaving out AirTable's records
members_conflicted_an_only(d, key_in_some) == d.an_some[key_in_some]

\* the members find_duplicates_across puts in the conflict of one key
members_conflicted(d, key_in_some) ==
    d.an_some[key_in_some] \o d.at_some[key_in_some]

\* across_branch looking at the loose maps before the exact maps
across_branch_some_first(h, member, fs, d) ==
    LET key_in_all  == Member_hash_with(h[member], None)
        key_in_some == Member_hash_with(h[member], fs)
        is_in_at_all  == key_in_all \in DOMAIN d.at_all
        is_in_an_all  == key_in_all \in DOMAIN d.an_all
        is_in_at_some == key_in_some \in DOMAIN d.at_some
        is_in_an_some == key_in_some \in DOMAIN d.an_some
    IN IF is_in_at_some /\ is_in_an_some THEN "conflict"
       ELSE IF ~is_in_at_all \/ ~is_in_an_all THEN "needs_sync"
       ELSE "up_to_date"

\* across_branch taking a record AirTable knows for a one-sided record
\* before asking whether ActionNetwork knows it too
across_branch_sync_first(h, member, fs, d) ==
    LET key_in_all  == Member_hash_with(h[member], None)
        key_in_some == Member_hash_with(h[member], fs)
        is_in_at_all  == key_in_all \in DOMAIN d.at_all
        is_in_an_all  == key_in_all \in DOMAIN d.an_all
        is_in_at_some == key_in_some \in DOMAIN d.at_some
        is_in_an_some == key_in_some \in DOMAIN d.an_some
    IN IF ~is_in_at_all \/ ~is_in_an_all
       THEN (IF is_in_at_some THEN "needs_sync"
             ELSE IF is_in_an_some THEN "needs_sync"
             ELSE "assert")
       ELSE "up_to_date"

\* across_branch asserting that both sources know the record's full key
across_branch_strict(h, member, fs, d) ==
    LET key_in_all  == Member_hash_with(h[member], None)
        key_in_some == Member_hash_with(h[member], fs)
        is_in_at_all  == key_in_all \in DOMAIN d.at_all
        is_in_an_all  == key_in_all \in DOMAIN d.an_all
        is_in_at_some == key_in_some \in DOMAIN d.at_some
        is_in_an_some == key_in_some \in DOMAIN d.an_some
    IN IF ~(is_in_at_all /\ is_in_an_all) THEN "assert"
       ELSE IF ~(is_in_at_some \/ is_in_an_some) THEN "assert"
       ELSE "up_to_date"

\* what one iteration of find_duplicates_across does with `member`:
\* "assert" (an assertion fails), "conflict", "needs_sync" or "up_to_date"
across_branch(h, member, fs, d) ==
    LET key_in_all  == Member_hash_with(h[member], None)
        key_in_some == Member_hash_with(h[member], fs)
        is_in_at_all  == key_in_all \in DOMAIN d.at_all
        is_in_an_all  == key_in_all \in DOMAIN d.an_all
        is_in_at_some == key_in_some \in DOMAIN d.at_some
        is_in_an_some == key_in_some \in DOMAIN d.an_some
    IN IF ~(is_in_at_all \/ is_in_an_all) THEN "assert"
       ELSE IF ~(is_in_at_some \/ is_in_an_some) THEN "assert"
       ELSE IF ~is_in_at_all \/ ~is_in_an_all
            THEN IF is_in_at_some /\ is_in_an_some THEN "conflict"
                 ELSE IF is_in_at_some /\ ~is_in_an_some THEN "needs_sync"
                 ELSE IF is_in_an_some /\ ~is_in_at_some THEN "needs_sync"
                 ELSE "assert"
            ELSE "up_to_date"

\* one iteration of the loop of find_duplicates_across
find_duplicates_across ==
    /\ pc = "across"
    /\ idx <= Len(all_members)
    /\ LET member == all_members[idx]
           key_in_some == Member_hash_with(heap[member], field_set)
           branch == across_branch(heap, member, field_set, dicts)
       IN /\ merge_conflicts' =
                IF branch = "conflict"
                THEN Append(merge_conflicts,
                            MergeConflict(members_conflicted(dicts, key_in_some),
                                          resolvers))
                ELSE merge_conflicts
          /\ needs_sync' = IF branch = "needs_sync"
                           THEN Append(needs_sync, member) ELSE needs_sync
          /\ up_to_date' = IF branch = "up_to_date"
                           THEN Append(up_to_date, member) ELSE up_to_date
          /\ pc' = IF branch = "assert" THEN "assert_failed"
                   ELSE IF idx = Len(all_members) THEN "matched"
                   ELSE "across"
    /\ idx' = idx + 1
    /\ UNCHANGED <<heap, an_members, at_members, field_set, dicts,
                   all_members, invoked, pending, entry_heap, an_dups,
                   at_dups, ci, unresolved, wasResolved, nsets, Applying, Calls>>

Next ==
    \/ get_merge_info
    \/ find_duplicates_across

Spec == Init /\ [][Next]_vars

----------------------------------------------------------------------------
(* C2 .. C6: the duplicate finder and the cross-source matcher *)

Range(seq) == {seq[k] : k \in 1..Len(seq)}

\* the equivalence key of the object id under the lens fs
KeyOf(id, fs) == Member_hash_with(heap[id], fs)

\* some record of the list has the key that `id` has under fs
KeyInSource(list, id, fs) ==
    \E k \in 1..Len(list) : KeyOf(list[k], fs) = KeyOf(id, fs)

\* the groups are disjoint, have two members or more, and share one key
GoodGroups(dups) ==
    /\ \A g \in 1..Len(dups) :
          /\ Len(dups[g]) >= 2
          /\ \A j, k \in 1..Len(dups[g]) :
                /\ KeyOf(dups[g][j], field_set) = KeyOf(dups[g][k], field_set)
                /\ j # k => dups[g][j] # dups[g][k]
    /\ \A g1, g2 \in 1..Len(dups) :
          g1 # g2 => Range(dups[g1]) \cap Range(dups[g2]) = {}

C3_EachKeyOnce ==
    \A j, k \in 1..Len(merge_conflicts) :
        j # k => KeyOf(merge_conflicts[j].members[1], field_set)
                    # KeyOf(merge_conflicts[k].members[1], field_set)

\* C4: an iteration on a representative whose full-identity key both sources
\* hold appends it to up_to_date and adds no MergeConflict and no needs_sync
\* entry.
C4_ExactDuplicateUpToDate ==
    [][(pc = "across"
        /\ KeyInSource(an_members, all_members[idx], None)
        /\ KeyInSource(at_members, all_members[idx], None))
       => (/\ merge_conflicts' = merge_conflicts
           /\ needs_sync' = needs_sync
           /\ up_to_date' = Append(up_to_date, all_members[idx]))]_vars

\* a record both sources hold exactly, whose equivalence key also matches a
\* record that differs from it, ended up to date
C4_Witness ==
    /\ pc = "matched"
    /\ \E k \in 1..Len(up_to_date), c \in 1..Len(merge_conflicts) :
          up_to_date[k] \in Range(merge_conflicts[c].members)

\* C5: of the records find_duplicates_across is given, needs_sync holds
\* exactly those that are not exact duplicates across the sources and whose
\* equivalence key one source alone holds, each once.
C5_NeedsSyncIff ==
    pc = "matched" =>
        /\ \A k \in 1..Len(all_members) :
              LET m == all_members[k] IN
              (m \in Range(needs_sync))
              <=> (/\ ~(KeyInSource(an_members, m, None)
                        /\ KeyInSource(at_members, m, None))
                   /\ KeyInSource(an_members, m, field_set)
                         # KeyInSource(at_members, m, field_set))
        /\ \A k \in 1..Len(needs_sync) :
              /\ needs_sync[k] \in Range(all_members)
              /\ ~(KeyInSource(an_members, needs_sync[k], field_set)
                   /\ KeyInSource(at_members, needs_sync[k], field_set))
              /\ \A j \in 1..Len(needs_sync) :
                    j # k => needs_sync[j] # needs_sync[k]

\* a run that found a one-sided record and a conflict
C5_Witness ==
    /\ pc = "matched"
    /\ needs_sync # <<>>
    /\ merge_conflicts # <<>>

\* C6: a MergeConflict holds exactly the records of both sources that have
\* its equivalence key, each once; so two or more, one or more of each
\* source; and two of them differ on an identity field.
C6_ConflictMembers ==
    \A c \in 1..Len(merge_conflicts) :
        LET ms == merge_conflicts[c].members IN
        /\ Range(ms) = {id \in Range(an_members) \cup Range(at_members) :
                           KeyOf(id, field_set) = KeyOf(ms[1], field_set)}
        /\ \A j, k \in 1..Len(ms) : j # k => ms[j] # ms[k]
        /\ Len(ms) >= 2
        /\ Range(ms) \cap Range(an_members) # {}
        /\ Range(ms) \cap Range(at_members) # {}
        /\ \E j, k \in 1..Len(ms) : \E f \in IdentityFields :
              heap[ms[j]][f] # heap[ms[k]][f]

\* a conflict of three records
C6_Witness ==
    /\ pc = "matched"
    /\ \E c \in 1..Len(merge_conflicts) : Len(merge_conflicts[c].members) = 3

----------------------------------------------------------------------------
(* ib_database_sync.py: MergeConflict.resolve, MissingFieldResolver,        *)
(* ManualResolver and resolve_merge_conflicts                               *)

\* bound on the number of members of the conflict being resolved
MaxConflictMembers == 3

\* is_any_conflict finding no conflict anywhere
is_any_conflict_never(h, members, field) == FALSE

\* ConflictResolver.is_any_conflict, over heap h
is_any_conflict(h, members, field) ==
    LET values == [k \in 1..Len(members) |-> Member_get(h[members[k]], field)]
    IN ~(\A k \in 1..Len(values) : values[k] = values[1])

\* the loop over the members leaving out the first of them
set_all_skip_first(h, members, field, value) ==
    [id \in DOMAIN h |->
        IF \E k \in 2..Len(members) : members[k] = id
        THEN Member_set(h[id], field, value)
        ELSE h[id]]

\* `for member in members: member.set(field, value)`, over heap h
set_all(h, members, field, value) ==
    [id \in DOMAIN h |->
        IF id \in Range(members) THEN Member_set(h[id], field, value)
        ELSE h[id]]

IsNotNone(v) == v # None

\* MissingFieldResolver.resolve counting the values of a field without
\* first asking is_any_conflict whether the members disagree on it
RECURSIVE MissingFieldResolver_resolve_no_recheck(_, _, _, _)
MissingFieldResolver_resolve_no_recheck(h, members, fields, all_conflicts_resolved) ==
    IF fields = <<>>
    THEN [heap |-> h, result |-> all_conflicts_resolved]
    ELSE LET field == Head(fields)
             values == [k \in 1..Len(members) |->
                           Member_get(h[members[k]], field)]
             not_none == SelectSeq(values, IsNotNone)
         IN IF Len(not_none) > 1
            THEN MissingFieldResolver_resolve_no_recheck(
                     h, members, Tail(fields), FALSE)
            ELSE IF not_none = <<>>
            THEN MissingFieldResolver_resolve_no_recheck(
                     h, members, Tail(fields), all_conflicts_resolved)
            ELSE MissingFieldResolver_resolve_no_recheck(
                     set_all(h, members, field, not_none[1]),
                     members, Tail(fields), all_conflicts_resolved)

\* the loop of MissingFieldResolver.resolve over `fields`: the heap it
\* leaves and the value of all_conflicts_resolved
RECURSIVE MissingFieldResolver_resolve(_, _, _, _)
MissingFieldResolver_resolve(h, members, fields, all_conflicts_resolved) ==
    IF fields = <<>>
    THEN [heap |-> h, result |-> all_conflicts_resolved]
    ELSE LET field == Head(fields)
             values == [k \in 1..Len(members) |->
                           Member_get(h[members[k]], field)]
             not_none == SelectSeq(values, IsNotNone)
         IN IF ~is_any_conflict(h, members, field)
            THEN MissingFieldResolver_resolve(h, members, Tail(fields),
                                              all_conflicts_resolved)
            ELSE IF Len(not_none) > 1
            THEN MissingFieldResolver_resolve(h, members, Tail(fields), FALSE)
            ELSE MissingFieldResolver_resolve(
                     set_all(h, members, field, not_none[1]),
                     members, Tail(fields), all_conflicts_resolved)

\* ManualResolver.set_field_to
set_field_to(h, field, members, selected_member_i) ==
    set_all(h, members, field, Member_get(h[members[selected_member_i]], field))

\* ManualResolver.set_every_field_to
RECURSIVE set_every_field_to(_, _, _, _)
set_every_field_to(h, fields, members, selected_member_i) ==
    IF fields = <<>> THEN h
    ELSE set_every_field_to(
             set_field_to(h, Head(fields), members, selected_member_i),
             Tail(fields), members, selected_member_i)

\* the fields the split of ManualResolver.resolve has still to go through,
\* up to the next one it prompts for (one with a conflict)
RECURSIVE skip_agreed(_, _, _)
skip_agreed(h, members, fields) ==
    IF fields = <<>> THEN <<>>
    ELSE IF is_any_conflict(h, members, Head(fields)) THEN fields
    ELSE skip_agreed(h, members, Tail(fields))

\* MergeConflict.resolve going on after a resolver has succeeded
after_resolver_no_stop(rs, k, result) ==
    IF k < Len(rs) THEN "next_resolver"
    ELSE IF result THEN "return_true" ELSE "return_false"

\* the loop of MergeConflict.resolve after the k-th resolver returned
after_resolver(rs, k, result) ==
    IF result THEN "return_true"
    ELSE IF k < Len(rs) THEN "next_resolver"
    ELSE "return_false"

\* the conflict resolve_merge_conflicts is at, and the resolver its
\* MergeConflict.resolve is at
conflict == merge_conflicts[ci]
resolver_k == Len(invoked[ci]) + 1
resolver == conflict.resolvers[resolver_k]

\* the running resolver returns `result` to MergeConflict.resolve, which
\* returns or goes on; resolve_merge_conflicts notes a False and goes on
ResolverReturns(result) ==
    LET outcome == after_resolver(conflict.resolvers, resolver_k, result) IN
    /\ invoked' = [invoked EXCEPT
                     ![ci] = Append(@, [resolver |-> resolver,
                                        result |-> result])]
    /\ IF outcome = "next_resolver"
       THEN /\ pc' = "resolving"
            /\ UNCHANGED <<ci, unresolved, wasResolved>>
       ELSE /\ wasResolved' = Append(wasResolved, outcome = "return_true")
            /\ unresolved' = IF outcome = "return_false"
                             THEN Append(unresolved, conflict)
                             ELSE unresolved
            /\ ci' = ci + 1
            /\ pc' = IF ci = Len(merge_conflicts) THEN "done"
                     ELSE "resolving"

\* UserQuit leaving the conflict at hand out of the unresolved ones
UserQuit_from_next ==
    /\ unresolved' = unresolved
                        \o SubSeq(merge_conflicts, ci + 1, Len(merge_conflicts))
    /\ pc' = "done"
    /\ UNCHANGED <<ci, wasResolved, invoked>>

\* UserQuit reaches resolve_merge_conflicts: the rest is unresolved
UserQuit ==
    /\ unresolved' = unresolved
                        \o SubSeq(merge_conflicts, ci, Len(merge_conflicts))
    /\ pc' = "done"
    /\ UNCHANGED <<ci, wasResolved, invoked>>

Matching == <<an_members, at_members, field_set, dicts, all_members, idx,
              merge_conflicts, needs_sync, up_to_date, an_dups, at_dups,
              nsets, action, connection, serialized, try_count, responses,
              raised, cleans, equivalence_fields_arg, actions, handled>>

\* MergeConflict.resolve calls MissingFieldResolver.resolve
MissingFieldResolver ==
    /\ pc = "resolving"
    /\ resolver = "MissingFieldResolver"
    /\ LET r == MissingFieldResolver_resolve(
                    heap, conflict.members,
                    equality_fields, TRUE)
       IN /\ heap' = r.heap
          /\ ResolverReturns(r.result)
    /\ entry_heap' = heap
    /\ UNCHANGED <<Matching, pending>>

\* MergeConflict.resolve calls ManualResolver.resolve, and the operator
\* answers its prompt: n, q, s or the number of a member
ManualResolver ==
    /\ pc = "resolving"
    /\ resolver = "ManualResolver"
    /\ entry_heap' = heap
    /\ \/ /\ ResolverReturns(FALSE)
          /\ UNCHANGED <<heap, pending>>
       \/ /\ UserQuit
          /\ UNCHANGED <<heap, pending>>
       \/ LET fields == skip_agreed(heap, conflict.members, equality_fields)
          IN IF fields = <<>>
             THEN /\ ResolverReturns(TRUE)
                  /\ UNCHANGED <<heap, pending>>
             ELSE /\ pending' = fields
                  /\ pc' = "split"
                  /\ UNCHANGED <<heap, ci, unresolved, wasResolved, invoked>>
       \/ \E i \in 1..Len(conflict.members) :
             /\ heap' = set_every_field_to(heap, equality_fields,
                                           conflict.members, i)
             /\ ResolverReturns(TRUE)
             /\ UNCHANGED pending
    /\ UNCHANGED Matching

\* the text the operator can enter as a custom value: '' or 'b'
CustomValues == {<<>>, <<"b">>}

\* ManualResolver.resolve_field on the next field in conflict, and the
\* operator's answer: q, c with a custom text, or the number of a member
ManualResolver_resolve_field ==
    /\ pc = "split"
    /\ \/ /\ UserQuit
          /\ UNCHANGED <<heap, pending>>
       \/ \E h \in {set_all(heap, conflict.members, Head(pending), user_input) :
                       user_input \in CustomValues}
                   \cup {set_field_to(heap, Head(pending), conflict.members, i) :
                            i \in 1..Len(conflict.members)} :
             LET fields == skip_agreed(h, conflict.members, Tail(pending))
             IN /\ heap' = h
                /\ pending' = fields
                /\ IF fields = <<>>
                   THEN ResolverReturns(TRUE)
                   ELSE UNCHANGED <<pc, ci, unresolved, wasResolved, invoked>>
    /\ UNCHANGED <<Matching, entry_heap>>

\* KeyboardInterrupt while MergeConflict.resolve is between two resolvers:
\* resolve_merge_conflicts treats it as it treats UserQuit
KeyboardInterrupt ==
    /\ pc = "resolving"
    /\ UserQuit
    /\ UNCHANGED <<heap, pending, entry_heap, Matching>>

\* the members of a conflict between the sources, as they can be when
\* resolve_merge_conflicts begins
ConflictRecords(id) ==
    {Member(first, last, a_str, None, None, IF id = 1 THEN AN ELSE AT,
            UniqueId(id)) :
        first \in {None, <<>>, a_str, <<"b">>}, last \in {None, a_str}}

\* One ActionNetwork record and one to MaxConflictMembers - 1 AirTable
\* records, all of one email address, matched under the email lens:
\* find_duplicates_across has appended the conflict of that key once for
\* every full-identity key that one source has and the other has not.
InitResolve ==
    /\ \E n \in 2..MaxConflictMembers :
         /\ heap \in [1..n -> UNION {ConflictRecords(id) :
                                        id \in 1..MaxConflictMembers}]
         /\ \A id \in 1..n : heap[id] \in ConflictRecords(id)
         /\ an_members = <<1>>
         /\ at_members = [k \in 1..(n - 1) |-> k + 1]
         /\ LET an_all == DOMAIN hash_members(heap, an_members, None)
                at_all == DOMAIN hash_members(heap, at_members, None)
                one_sided == (an_all \cup at_all) \ (an_all \cap at_all)
            IN /\ one_sided # {}
               /\ merge_conflicts =
                     [c \in 1..Cardinality(one_sided) |->
                         MergeConflict(an_members \o at_members, resolvers)]
    /\ field_set = <<"email_address">>
    /\ pc = "resolving"
    /\ ci = 1
    /\ invoked = [c \in 1..Len(merge_conflicts) |-> <<>>]
    /\ unresolved = <<>> /\ wasResolved = <<>>
    /\ pending = <<>>
    /\ entry_heap = heap
    /\ dicts = <<>> /\ all_members = <<>> /\ idx = 0
    /\ needs_sync = <<>> /\ up_to_date = <<>>
    /\ an_dups = <<>> /\ at_dups = <<>>
    /\ nsets = 0
    /\ NoAction
    /\ NoCalls

NextResolve ==
    \/ MissingFieldResolver
    \/ ManualResolver
    \/ ManualResolver_resolve_field
    \/ KeyboardInterrupt

SpecResolve == InitResolve /\ [][NextResolve]_vars

----------------------------------------------------------------------------
(* C7 .. C10: MergeConflict.resolve and MissingFieldResolver *)

\* MissingFieldResolver.resolve has just returned for conflict c, and no
\* other resolver has run since
JustAfterMissingField(c) ==
    /\ Len(invoked[c]) = 1
    /\ invoked[c][1].resolver = "MissingFieldResolver"
    /\ IF invoked[c][1].result
       THEN ci = c + 1 /\ (ci \in DOMAIN invoked => invoked[ci] = <<>>)
       ELSE ci = c /\ pc = "resolving"

\* the values the members of conflict c held for field f in heap h
ValuesOf(h, c, f) == {h[id][f] : id \in Range(merge_conflicts[c].members)}

NonEmpty(V) == V \ {None, <<>>}

\* C7: the resolvers are tried in the order of the list, MissingFieldResolver
\* before ManualResolver; after a resolver returned true no other resolver
\* runs and resolve returns true; resolve returns false only after every
\* resolver returned false.
C7_FirstSuccessStops ==
    \A c \in DOMAIN invoked :
        LET log == invoked[c] IN
        /\ Len(log) <= Len(resolvers)
        /\ \A k \in 1..Len(log) : log[k].resolver = resolvers[k]
        /\ \A k \in 1..Len(log) :
              log[k].result => /\ k = Len(log)
                               /\ c <= Len(wasResolved)
                               /\ wasResolved[c]
                               /\ ~(pc = "split" /\ ci = c)
        /\ (c <= Len(wasResolved) /\ ~wasResolved[c])
              => /\ Len(log) = Len(resolvers)
                 /\ \A k \in 1..Len(log) : ~log[k].result

\* a conflict MissingFieldResolver resolved: ManualResolver never ran
C7_Witness ==
    /\ pc = "done"
    /\ wasResolved = <<TRUE>>
    /\ invoked[1] = <<[resolver |-> "MissingFieldResolver", result |-> TRUE]>>

\* C8: when MissingFieldResolver.resolve returns false, every member is as
\* it was before the call: no field changed, no member became dirty.
C8_FalseMutatesNothing ==
    \A c \in DOMAIN invoked :
        (JustAfterMissingField(c) /\ ~invoked[c][1].result)
            => heap = entry_heap

\* every field the members disagree on has one non-empty value, held by
\* one or more members, and None in all the others
C9_Fillable(h, c) ==
    \A f \in IdentityFields :
        is_any_conflict(h, merge_conflicts[c].members, f)
            => /\ Cardinality(NonEmpty(ValuesOf(h, c, f))) = 1
               /\ ValuesOf(h, c, f) \ NonEmpty(ValuesOf(h, c, f)) = {None}

\* C9: if every disagreeing field has exactly one distinct non-empty value
\* and None in all other members, MissingFieldResolver.resolve returns true
\* and every member ends with that value.
C9_FillsMissing ==
    \A c \in DOMAIN invoked :
        (JustAfterMissingField(c) /\ C9_Fillable(entry_heap, c))
            => /\ invoked[c][1].result
               /\ \A f \in IdentityFields :
                     /\ ~is_any_conflict(heap, merge_conflicts[c].members, f)
                     /\ NonEmpty(ValuesOf(entry_heap, c, f))
                           \subseteq ValuesOf(heap, c, f)

\* every field the members disagree on has a non-empty value in one member
\* and '' or None in all the others
C10_OneNonEmpty(h, c) ==
    \A f \in IdentityFields :
        is_any_conflict(h, merge_conflicts[c].members, f)
            => Cardinality({id \in Range(merge_conflicts[c].members) :
                               h[id][f] \notin {None, <<>>}}) = 1

\* C10: MissingFieldResolver.resolve puts '' in no member that held None
\* for a field whose values were '' and None only; and a conflict whose
\* disagreeing fields each have one non-empty value beside '' and None is
\* resolved, '' counting as missing.
C10_EmptyStringNotAuthoritative ==
    \A c \in DOMAIN invoked :
        JustAfterMissingField(c)
            => /\ \A f \in IdentityFields :
                     ValuesOf(entry_heap, c, f) = {None, <<>>}
                        => \A id \in Range(merge_conflicts[c].members) :
                              entry_heap[id][f] = None => heap[id][f] = None
               /\ C10_OneNonEmpty(entry_heap, c) => invoked[c][1].result

----------------------------------------------------------------------------
(* C11, C12, C15: resolving again, and quitting *)

\* the members of conflict c agree on every equality field in heap h
AllAgree(h, c) ==
    \A f \in IdentityFields :
        ~is_any_conflict(h, merge_conflicts[c].members, f)

\* C11: when the members of a conflict agree on every equality field,
\* MergeConflict.resolve returns true after MissingFieldResolver alone (no
\* prompt), and no field and no dirty flag has changed; so resolving a
\* conflict again after it was resolved returns true and mutates nothing.
C11_ResolvedIsNoOp ==
    \A c \in DOMAIN invoked :
        (JustAfterMissingField(c) /\ AllAgree(entry_heap, c))
            => /\ invoked[c][1].result
               /\ c <= Len(wasResolved) /\ wasResolved[c]
               /\ heap = entry_heap

\* the same members resolved a second time, after ManualResolver resolved
\* them and left a member dirty
C11_Witness ==
    \E c \in DOMAIN invoked :
        /\ c > 1 /\ c <= Len(wasResolved)
        /\ wasResolved[c - 1]
        /\ Len(invoked[c - 1]) = Len(resolvers)
        /\ JustAfterMissingField(c)
        /\ AllAgree(entry_heap, c)
        /\ wasResolved[c]
        /\ \E id \in Range(merge_conflicts[c].members) : heap[id].dirty

\* C12: MergeConflict.resolve runs no resolver on a conflict that has a
\* dirty member when resolve is entered.
C12_EntersUnmodified ==
    \A c \in DOMAIN invoked :
        JustAfterMissingField(c)
            => \A id \in Range(merge_conflicts[c].members) :
                  ~entry_heap[id].dirty

\* the conflicts before the i-th that MergeConflict.resolve returned false
\* for, in order
RECURSIVE ReturnedFalse(_)
ReturnedFalse(i) ==
    IF i <= 1 THEN <<>>
    ELSE ReturnedFalse(i - 1)
            \o (IF wasResolved[i - 1] THEN <<>> ELSE <<merge_conflicts[i - 1]>>)

----------------------------------------------------------------------------
(* ZipCodeResolver. src/ib_database_sync.py has no such class; src/test.py  *)
(* imports it and tests it. It is modelled from its description: it applies *)
(* only when zip_code is among the fields and no other field disagrees; it  *)
(* prefers the first ZIP+4 value, then the first 5-digit value, and         *)
(* declines when no value has either form.                                  *)

Digits == {"0", "1", "2", "3", "4", "5", "6", "7", "8", "9"}

\* the value is a string of the form \d{5}
IsZip5(z) ==
    /\ Len(z) = 5
    /\ \A k \in 1..5 : z[k] \in Digits

\* the value is a string of the form \d{5}-\d{4}
IsZipPlus4(z) ==
    /\ Len(z) = 10
    /\ \A k \in 1..5 : z[k] \in Digits
    /\ z[6] = "-"
    /\ \A k \in 7..10 : z[k] \in Digits

\* ZipCodeResolver.resolve(members, equality_fields), over heap h
ZipCodeResolver_resolve(h, members, fields) ==
    LET zips == [k \in 1..Len(members) |->
                    Member_get(h[members[k]], "zip_code")]
        plus4 == SelectSeq(zips, IsZipPlus4)
        five  == SelectSeq(zips, IsZip5)
    IN IF "zip_code" \notin Range(fields)
       THEN [heap |-> h, result |-> FALSE]
       ELSE IF \E k \in 1..Len(fields) :
                  /\ fields[k] # "zip_code"
                  /\ is_any_conflict(h, members, fields[k])
       THEN [heap |-> h, result |-> FALSE]
       ELSE IF plus4 # <<>>
       THEN [heap |-> set_all(h, members, "zip_code", plus4[1]),
             result |-> TRUE]
       ELSE IF five # <<>>
       THEN [heap |-> set_all(h, members, "zip_code", five[1]),
             result |-> TRUE]
       ELSE [heap |-> h, result |-> FALSE]

\* the zip codes of test_zip_resolver: None, '12345', '94704',
\* '12345-6789', '00000-0000', and a text that is no zip code
ZipValues ==
    {None,
     <<"1", "2", "3", "4", "5">>,
     <<"9", "4", "7", "0", "4">>,
     <<"1", "2", "3", "4", "5", "-", "6", "7", "8", "9">>,
     <<"0", "0", "0", "0", "0", "-", "0", "0", "0", "0">>,
     <<"b">>}

\* the members test_zip_resolver builds: clean, alike but for the first
\* name and the zip code
ZipRecord(id, first_name, zip_code) ==
    Member(first_name, a_str, a_str, zip_code, None, AT, UniqueId(id))

\* the lists of fields resolve is given
ZipFieldLists ==
    {equality_fields, <<"first_name", "zip_code">>,
     <<"first_name", "last_name">>}

InitZip ==
    /\ \E n \in 2..MaxConflictMembers :
         /\ \E given \in [1..n -> {a_str, <<"b">>} \X ZipValues] :
               heap = [id \in 1..n |->
                         ZipRecord(id, given[id][1], given[id][2])]
         /\ an_members = <<>>
         /\ at_members = [k \in 1..n |-> k]
         /\ merge_conflicts =
               <<MergeConflict(at_members, <<"ZipCodeResolver">>)>>
    /\ field_set \in ZipFieldLists
    /\ pc = "zip"
    /\ ci = 1
    /\ invoked = <<<<>>>>
    /\ unresolved = <<>> /\ wasResolved = <<>>
    /\ pending = <<>>
    /\ entry_heap = heap
    /\ dicts = <<>> /\ all_members = <<>> /\ idx = 0
    /\ needs_sync = <<>> /\ up_to_date = <<>>
    /\ an_dups = <<>> /\ at_dups = <<>>
    /\ nsets = 0
    /\ NoAction
    /\ NoCalls

\* resolver.resolve(members, equality_fields) of test_zip_resolver
ZipCodeResolver ==
    /\ pc = "zip"
    /\ LET r == ZipCodeResolver_resolve(heap, conflict.members, field_set)
       IN /\ heap' = r.heap
          /\ invoked' = [invoked EXCEPT
                           ![ci] = Append(@, [resolver |-> "ZipCodeResolver",
                                              result |-> r.result])]
    /\ entry_heap' = heap
    /\ pc' = "zip_done"
    /\ UNCHANGED <<Matching, pending, ci, unresolved, wasResolved>>

NextZip == ZipCodeResolver

SpecZip == InitZip /\ [][NextZip]_vars

----------------------------------------------------------------------------
(* C13, C14: ZipCodeResolver *)

\* a field of the list other than zip_code on which the members held more
\* than one value when the resolver was called
C13_OtherFieldDisagrees ==
    \E f \in Range(field_set) \ {"zip_code"} :
        Cardinality(ValuesOf(entry_heap, 1, f)) > 1

\* C13: when a field of equality_fields other than zip_code disagrees among
\* the members, ZipCodeResolver.resolve returns false and leaves every
\* member as it was (no zip changed, no member dirty).
C13_ZipDeclinesOnOtherConflict ==
    (pc = "zip_done" /\ C13_OtherFieldDisagrees)
        => /\ ~invoked[1][1].result
           /\ heap = entry_heap

\* '12345' and '12345-6789' under different first names: declined
C13_Witness ==
    /\ pc = "zip_done"
    /\ "zip_code" \in Range(field_set)
    /\ entry_heap[1].first_name # entry_heap[2].first_name
    /\ IsZip5(entry_heap[1].zip_code)
    /\ IsZipPlus4(entry_heap[2].zip_code)
    /\ ~invoked[1][1].result
    /\ heap = entry_heap

\* the zip code the members should end with: the first ZIP+4 value in the
\* order of the members, else the first 5-digit value
C14_Chosen ==
    LET ms == merge_conflicts[1].members
        zip(k) == entry_heap[ms[k]].zip_code
        P4 == {k \in 1..Len(ms) : IsZipPlus4(zip(k))}
        P5 == {k \in 1..Len(ms) : IsZip5(zip(k))}
        first(P) == CHOOSE k \in P : \A j \in P : k <= j
    IN IF P4 # {} THEN zip(first(P4)) ELSE zip(first(P5))

\* C14: when zip_code is among the fields, no other field disagrees and
\* some member's zip has a recognised form, ZipCodeResolver.resolve returns
\* true and every member ends with the first ZIP+4 value, or without one
\* the first 5-digit value; nothing else changes, and a member that held
\* that value already does not become dirty.
C14_ZipPrefersPlus4 ==
    (/\ pc = "zip_done"
     /\ "zip_code" \in Range(field_set)
     /\ ~C13_OtherFieldDisagrees
     /\ \E id \in Range(merge_conflicts[1].members) :
           IsZipPlus4(entry_heap[id].zip_code)
              \/ IsZip5(entry_heap[id].zip_code))
        => /\ invoked[1][1].result
           /\ \A id \in Range(merge_conflicts[1].members) :
                 /\ heap[id].zip_code = C14_Chosen
                 /\ heap[id].dirty = (entry_heap[id].zip_code # C14_Chosen)
                 /\ [heap[id] EXCEPT !.zip_code = 0, !.dirty = FALSE]
                       = [entry_heap[id] EXCEPT !.zip_code = 0,
                                                !.dirty = FALSE]

\* a text that is no zip code and '12345-6789': the first member is
\* overwritten and dirty, the second is not dirty
C14_Witness ==
    /\ pc = "zip_done"
    /\ entry_heap[1].zip_code = <<"b">>
    /\ IsZipPlus4(entry_heap[2].zip_code)
    /\ invoked[1][1].result
    /\ heap[1].zip_code = entry_heap[2].zip_code
    /\ heap[1].dirty
    /\ ~heap[2].dirty

----------------------------------------------------------------------------
(* C16, C17: Member.set and Member.dirty_fields of records.py *)

\* the record as Member.__init__ built it
Constructed(id) == Member(a_str, a_str, a_str, a_str, None, AT, UniqueId(id))

\* C16: on every record the program can hold, set(field, v) with the value
\* the field already has changes nothing (dirty flag, fields, dirty_fields),
\* and set(field, v) with another value makes the record dirty and stores v.
C16_SetDirtyIffChanged ==
    \A id \in DOMAIN heap :
        \A f \in IdentityFields \cup MetadataFields :
            \A v \in FieldValues :
                LET m == set(heap[id], f, v) IN
                IF v = get(heap[id], f)
                THEN /\ m = heap[id]
                     /\ dirty_fields(m) = dirty_fields(heap[id])
                ELSE /\ m.dirty
                     /\ get(m, f) = v

\* one set changed first_name of the second record, the other set assigned
\* a value already held: the first record is as constructed, not dirty
C16_Witness ==
    /\ nsets = 2
    /\ heap[1] = Constructed(1)
    /\ heap[2].dirty
    /\ heap[2].original_dict = [f \in {"first_name"} |-> a_str]
    /\ heap[2].first_name = <<"b">>

\* C17: dirty_fields() is exactly the set of fields whose value differs from
\* the value the record was constructed with.
C17_DirtyFieldsAreChanged ==
    \A id \in DOMAIN heap :
        dirty_fields(heap[id]) =
            {f \in IdentityFields \cup MetadataFields :
                get(heap[id], f) # get(Constructed(id), f)}

----------------------------------------------------------------------------
(* actions.py: Action, CreateAction, DeleteAction and UpdateAction *)

\* CreateAction(member), DeleteAction(member), UpdateAction(member): the
\* class is the name its action_name returns; member is the object id
Action(name, member) == [name |-> name, member |-> member]

ActionNames == {<<"create">>, <<"delete">>, <<"update">>}

\* action_name
action_name(a) == a.name

\* UpdateAction.additional_fields giving every identity field
additional_fields_all(a, h) ==
    IF action_name(a) = <<"update">>
    THEN [key \in IdentityFields |-> get(h[a.member], key)]
    ELSE <<>>

\* Action.additional_fields ({}) and UpdateAction.additional_fields, the
\* member being h[a.member]
additional_fields(a, h) ==
    IF action_name(a) = <<"update">>
    THEN [key \in dirty_fields(h[a.member]) |-> get(h[a.member], key)]
    ELSE <<>>

\* dict.update
dict_update(d, e) ==
    [key \in (DOMAIN d) \cup (DOMAIN e) |->
        IF key \in DOMAIN e THEN e[key] ELSE d[key]]

\* Action.serialize
serialize(a, h) ==
    LET d == [key \in {"id", "source", "action"} |->
                 CASE key = "id" -> h[a.member].unique_id
                   [] key = "source" -> h[a.member].source_name
                   [] key = "action" -> action_name(a)]
    IN dict_update(d, additional_fields(a, h))

\* two records as constructed, ready for set() and for an action
InitActions ==
    /\ heap = [id \in {1, 2} |->
                 Member(a_str, a_str, a_str, a_str, None, AT, UniqueId(id))]
    /\ field_set = None
    /\ pc = "records"
    /\ nsets = 0
    /\ Idle

\* an action is made of a record and serialized, as do_actions prints it
Action_serialize ==
    /\ pc = "records"
    /\ \E name \in ActionNames, member \in DOMAIN heap :
          /\ action' = Action(name, member)
          /\ serialized' = serialize(action', heap)
    /\ pc' = "serialized"
    /\ UNCHANGED <<heap, an_members, at_members, field_set, dicts,
                   all_members, idx, merge_conflicts, needs_sync, up_to_date,
                   invoked, pending, entry_heap, an_dups, at_dups, ci,
                   unresolved, wasResolved, nsets, connection, try_count,
                   responses, raised, Calls>>

NextActions ==
    \/ SetField
    \/ Action_serialize

SpecActions == InitActions /\ [][NextActions]_vars

----------------------------------------------------------------------------
(* C18: Action.serialize *)

\* C18: serialize() returns a map whose keys are id, source and action, and
\* for an UpdateAction also the fields dirty_fields() reports, and no other
\* key; id is the member's unique_id, source its source_name, action the
\* name of the action, and each field's entry is the field's current value.
C18_SerializeKeys ==
    pc = "serialized"
        => LET m == heap[action.member] IN
           /\ DOMAIN serialized =
                 {"id", "source", "action"}
                    \cup (IF action.name = <<"update">>
                          THEN DOMAIN m.original_dict ELSE {})
           /\ serialized["id"] = m.unique_id
           /\ serialized["source"] = m.source_name
           /\ serialized["action"] = action.name
           /\ action.name = <<"update">>
                 => \A f \in DOMAIN m.original_dict : serialized[f] = m[f]

\* an UpdateAction of a record with one changed field out of two sets
C18_Witness ==
    /\ pc = "serialized"
    /\ action.name = <<"update">>
    /\ heap[action.member].first_name = <<"b">>
    /\ heap[action.member].last_name = a_str
    /\ DOMAIN serialized = {"id", "source", "action", "first_name"}
    /\ serialized["first_name"] = <<"b">>

----------------------------------------------------------------------------
(* connections.py: Connection.do_action and Connection._request_helper *)

\* the tries _request_helper makes before it gives up
MaxTries == 3

\* what one request can meet: requests raises a RequestException, or the
\* server answers with a status code
Responses == {"RequestException", "200", "404", "422"}

RuntimeError == <<"RuntimeError">>
AssertionError == <<"AssertionError">>

\* the prefix _do_action_update_helper looks for in a unique id
prefix == "action_network:"

\* the unique ids of the members of _test_connection_with: the invalid
\* 'action_network:N/A' and an id AirTable gave, without the prefix
ConnectionUniqueIds == {<<prefix, "N/A">>, <<"rec", "1">>}

\* `prefix in unique_id`
has_prefix(unique_id) == \E k \in 1..Len(unique_id) : unique_id[k] = prefix

\* _request_helper catching a server error as it catches a
\* RequestException
after_request_catch_all(count, response) ==
    IF response = "200" THEN "return"
    ELSE IF count + 1 < MaxTries THEN "retry"
    ELSE "RuntimeError"

\* one turn of the loop of _request_helper, `count` tries having failed
\* before and the request meeting `response`: "return" (response.json()),
\* "RuntimeError" (raised to the caller), or "retry"
after_request(count, response) ==
    IF response = "RequestException"
    THEN (IF count + 1 < MaxTries THEN "retry" ELSE "RuntimeError")
    ELSE IF response # "200" THEN "RuntimeError"
    ELSE "return"

\* an action on one member, about to be applied through a connection
InitConnection ==
    /\ \E unique_id \in ConnectionUniqueIds, source_name \in {AN, AT} :
          heap = [id \in {1} |->
                    Member(a_str, a_str, a_str, None, None, source_name,
                           unique_id)]
    /\ action \in {Action(name, 1) : name \in ActionNames}
    /\ connection \in {AN, AT}
    /\ serialized = <<>>
    /\ try_count = 0 /\ responses = <<>> /\ raised = None
    /\ field_set = None
    /\ pc = "do_action"
    /\ nsets = 0
    /\ Idle_matching
    /\ NoCalls

\* Connection.do_action up to the request of _do_action_create, _update or
\* _delete; ANConnection._do_action_update_helper asserts the prefix
do_action ==
    /\ pc = "do_action"
    /\ IF /\ connection = AN
          /\ action_name(action) \in {<<"update">>, <<"delete">>}
          /\ ~has_prefix(heap[action.member].unique_id)
       THEN /\ raised' = AssertionError
            /\ pc' = "raised"
       ELSE /\ raised' = raised
            /\ pc' = "request"
    /\ UNCHANGED <<heap, an_members, at_members, field_set, dicts,
                   all_members, idx, merge_conflicts, needs_sync, up_to_date,
                   invoked, pending, entry_heap, an_dups, at_dups, ci,
                   unresolved, wasResolved, nsets, action, connection,
                   serialized, try_count, responses, Calls>>

\* one turn of the loop of _request_helper: the request, and what the
\* helper does with what the request met
request_helper ==
    /\ pc = "request"
    /\ try_count < MaxTries
    /\ \E response \in Responses :
          LET outcome == after_request(try_count, response) IN
          /\ responses' = Append(responses, response)
          /\ try_count' = IF response = "RequestException"
                          THEN try_count + 1 ELSE try_count
          /\ raised' = IF outcome = "RuntimeError" THEN RuntimeError
                       ELSE raised
          /\ pc' = CASE outcome = "return" -> "returned"
                     [] outcome = "RuntimeError" -> "raised"
                     [] outcome = "retry" -> "request"
    /\ UNCHANGED <<heap, an_members, at_members, field_set, dicts,
                   all_members, idx, merge_conflicts, needs_sync, up_to_date,
                   invoked, pending, entry_heap, an_dups, at_dups, ci,
                   unresolved, wasResolved, nsets, action, connection,
                   serialized, Calls>>

NextConnection ==
    \/ do_action
    \/ request_helper

SpecConnection == InitConnection /\ [][NextConnection]_vars

----------------------------------------------------------------------------
(* C19: a rejected action *)

\* C19: a response with a status other than 200 is the last request of the
\* action and leaves RuntimeError raised to the caller of do_action; only a
\* request that raised a RequestException is followed by another request;
\* there are at most 3 requests, and after 3 RequestExceptions RuntimeError
\* is raised.
C19_RejectedRaisesOnce ==
    /\ Len(responses) <= 3
    /\ \A k \in 1..Len(responses) :
          /\ k < Len(responses) => responses[k] = "RequestException"
          /\ responses[k] \notin {"200", "RequestException"}
                => /\ pc = "raised"
                   /\ raised = RuntimeError
    /\ (Len(responses) = 3 /\ responses[3] = "RequestException")
          => (pc = "raised" /\ raised = RuntimeError)
    /\ pc = "returned" => (raised = None /\ responses[Len(responses)] = "200")

\* an UpdateAction of the member with the invalid id, rejected at the first
\* request
C19_Witness ==
    /\ pc = "raised"
    /\ action_name(action) = <<"update">>
    /\ heap[action.member].unique_id = <<prefix, "N/A">>
    /\ responses = <<"404">>
    /\ raised = RuntimeError

----------------------------------------------------------------------------
(* C20: two records of one source under one name *)

name_lens == <<"last_name", "first_name">>

\* the number of times x occurs in the list
Occurrences(list, x) == Cardinality({k \in 1..Len(list) : list[k] = x})

\* source A holds two records, of one (last_name, first_name) and of
\* different emails, and no record of source B has that name
C20_TwoOfOneName(A, B) ==
    /\ field_set = name_lens
    /\ Len(A) = 2
    /\ KeyOf(A[1], name_lens) = KeyOf(A[2], name_lens)
    /\ heap[A[1]].email_address # heap[A[2]].email_address
    /\ \A k \in 1..Len(B) : KeyOf(B[k], name_lens) # KeyOf(A[1], name_lens)

\* what the claim says of the two records of source A, whose duplicate
\* groups are a_dups
C20_BothNeedSync(A, a_dups) ==
    /\ a_dups = <<A>>
    /\ pc = "matched"
          => /\ \A k \in 1..2 : Occurrences(needs_sync, A[k]) = 1
             /\ \A c \in 1..Len(merge_conflicts) :
                   \A k \in 1..2 : A[k] \notin Range(merge_conflicts[c].members)

\* C20: when a source holds two records of one (last_name, first_name) and
\* different emails and the other source holds no record of that name, the
\* duplicate finder under the name lens returns one group, of these two
\* records, and the matcher puts each of them in needs_sync and in no
\* MergeConflict.
C20_SameNameOneSource ==
    pc \in {"across", "matched"}
        => /\ C20_TwoOfOneName(an_members, at_members)
                 => C20_BothNeedSync(an_members, an_dups)
           /\ C20_TwoOfOneName(at_members, an_members)
                 => C20_BothNeedSync(at_members, at_dups)

\* ActionNetwork holds the two records, AirTable one record of another name
C20_Witness ==
    /\ pc = "matched"
    /\ C20_TwoOfOneName(an_members, at_members)
    /\ Len(at_members) = 1
    /\ an_dups = <<an_members>>
    /\ Range(needs_sync) = Range(an_members) \cup Range(at_members)
    /\ merge_conflicts = <<>>

----------------------------------------------------------------------------
(* C21: matching on normalized values *)

\* C21: two records of different sources whose values for the fields of the
\* lens are equal after normalization (lower case, stripped, '' as None)
\* are matched: the matcher does not put both of them in needs_sync.
C21_NormalizedMatch ==
    pc = "matched"
        => \A i \in Range(an_members), j \in Range(at_members) :
              hash_with(heap[i], field_set) = hash_with(heap[j], field_set)
                 => ~(i \in Range(needs_sync) /\ j \in Range(needs_sync))

----------------------------------------------------------------------------
(* records.py: HashFriendlyMember._is_eq and __lt__ *)

\* ord() of a character
ord(c) ==
    CASE c = " " -> 32
      [] c = "A" -> 65
      [] c = "B" -> 66
      [] c = "a" -> 97
      [] c = "b" -> 98

\* x < y of Python 2 for two values that are None or strings: None is less
\* than every string, and strings compare character by character
RECURSIVE less(_, _)
less(x, y) ==
    IF x = None \/ y = None THEN x = None /\ y # None
    ELSE IF y = <<>> THEN FALSE
    ELSE IF x = <<>> THEN TRUE
    ELSE IF Head(x) # Head(y) THEN ord(Head(x)) < ord(Head(y))
    ELSE less(Tail(x), Tail(y))

\* HashFriendlyMember._is_eq
is_eq(m, other, field) ==
    LET this == get_clean(m, field)
        that == get_clean(other, field)
    IN IF this = that THEN TRUE
       ELSE IF this = None \/ that = None THEN FALSE
       ELSE this = that

\* sort_order, which is also equality_fields sorted by it
sort_order == <<"last_name", "first_name", "email_address", "zip_code">>

\* the loop of HashFriendlyMember.__lt__ over `fields`
RECURSIVE lt_loop(_, _, _)
lt_loop(m, other, fields) ==
    IF fields = <<>> THEN FALSE
    ELSE IF is_eq(m, other, Head(fields))
    THEN lt_loop(m, other, Tail(fields))
    ELSE less(get_clean(m, Head(fields)), get_clean(m, Head(fields)))

\* HashFriendlyMember.__lt__
lt(m, other) == lt_loop(m, other, sort_order)

----------------------------------------------------------------------------
(* C22: the default ordering *)

\* the fields of sort_order, from position k on, on which the two records
\* are not equal under the normalized comparison
RECURSIVE Differing(_, _, _)
Differing(a, b, k) ==
    IF k > Len(sort_order) THEN <<>>
    ELSE (IF get_clean(a, sort_order[k]) # get_clean(b, sort_order[k])
          THEN <<sort_order[k]>> ELSE <<>>)
         \o Differing(a, b, k + 1)

\* C22: a < b holds iff at the first field of (last_name, first_name,
\* email_address, zip_code) on which a and b are not equal under the
\* normalized comparison a's value is less than b's; so of two records that
\* differ on a field exactly one is less than the other.
C22_LexicographicOrder ==
    \A i, j \in DOMAIN heap :
        LET a == heap[i]
            b == heap[j]
            d == Differing(a, b, 1)
        IN IF d = <<>> THEN ~lt(a, b)
           ELSE /\ lt(a, b) = less(get_clean(a, d[1]), get_clean(b, d[1]))
                /\ lt(a, b) # lt(b, a)

----------------------------------------------------------------------------
(* find_duplicates_within on a source holding several duplicate groups *)

\* bound on the number of records of the source
MaxDupMembers == 4

\* ActionNetwork delivers up to MaxDupMembers records with last names 'a'
\* and 'b'; AirTable delivers none
InitDups ==
    /\ \E n \in 0..MaxDupMembers :
         \E given \in [1..n -> {a_str, <<"b">>}] :
            /\ an_members = [k \in 1..n |-> k]
            /\ heap = [id \in 1..n |->
                         Member(a_str, given[id], None, None, None, AN,
                                UniqueId(id))]
    /\ at_members = <<>>
    /\ field_set \in equivalence_fields
    /\ pc = "start"
    /\ dicts = <<>> /\ all_members = <<>> /\ idx = 0
    /\ merge_conflicts = <<>> /\ needs_sync = <<>> /\ up_to_date = <<>>
    /\ invoked = <<>> /\ pending = <<>> /\ entry_heap = <<>>
    /\ an_dups = <<>> /\ at_dups = <<>>
    /\ ci = 0 /\ unresolved = <<>> /\ wasResolved = <<>>
    /\ nsets = 0
    /\ NoAction
    /\ NoCalls

NextDups ==
    \/ get_merge_info
    \/ find_duplicates_across

SpecDups == InitDups /\ [][NextDups]_vars

----------------------------------------------------------------------------
(* C23: the duplicate groups and their order *)

\* the groups of a result, each as the set of its members
GroupSets(dups) == {Range(dups[g]) : g \in 1..Len(dups)}

IndexOf(seq, x) == CHOOSE k \in 1..Len(seq) : seq[k] = x

\* C23: the set of duplicate groups found in a source is the same for every
\* order of the input list, and the groups are returned in the order in
\* which their keys were first seen in the input.
C23_GroupsInFirstSeenOrder ==
    pc \in {"across", "matched"}
        => /\ \A members \in DictOrders(Range(an_members)) :
                LET hm == hash_members(heap, members, field_set)
                IN \A keys \in DictOrders(DOMAIN hm) :
                      GroupSets(find_duplicates_within(hm, keys))
                          = GroupSets(an_dups)
           /\ \A j, k \in 1..Len(an_dups) :
                j < k => IndexOf(an_members, an_dups[j][1])
                            < IndexOf(an_members, an_dups[k][1])

\* the first half of C23 alone: the set of groups does not depend on the
\* order of the input list
C23_GroupSetIndependent ==
    pc \in {"across", "matched"}
        => \A members \in DictOrders(Range(an_members)) :
              LET hm == hash_members(heap, members, field_set)
              IN \A keys \in DictOrders(DOMAIN hm) :
                    GroupSets(find_duplicates_within(hm, keys))
                        = GroupSets(an_dups)

----------------------------------------------------------------------------
(* get_clean applied to what get_clean returned *)

\* bound on the length of the value get_clean is first given
MaxLen == 3

\* bound on the number of times get_clean is applied in a row
MaxCleans == 2

\* the characters of the values
Chars == {" ", "A", "a", "b"}

\* the strings of up to MaxLen characters
Strings == UNION {[1..n -> Chars] : n \in 0..MaxLen}

\* record 1 holds any string or None as first name; record 2 is there to
\* hold what get_clean returned
InitClean ==
    /\ \E x \in Strings \cup {None} :
          heap = [id \in {1, 2} |->
                    Member(IF id = 1 THEN x ELSE None, a_str, a_str, a_str,
                           None, AT, UniqueId(id))]
    /\ field_set = None
    /\ pc = "clean"
    /\ nsets = 0
    /\ Idle

\* get_clean('first_name') on record 1 the first time, and from then on on
\* record 2, which is then given the returned value as its first name
get_clean_again ==
    /\ pc = "clean"
    /\ Len(cleans) < MaxCleans
    /\ LET m == heap[IF cleans = <<>> THEN 1 ELSE 2]
           returned == get_clean(m, "first_name")
       IN /\ cleans' = Append(cleans, returned)
          /\ heap' = [heap EXCEPT ![2].first_name = returned]
    /\ UNCHANGED <<an_members, at_members, field_set, pc, dicts, all_members,
                   idx, merge_conflicts, needs_sync, up_to_date, invoked,
                   pending, entry_heap, an_dups, at_dups, ci, unresolved,
                   wasResolved, nsets, Applying, equivalence_fields_arg,
                   actions, handled>>

NextClean == get_clean_again

SpecClean == InitClean /\ [][NextClean]_vars

----------------------------------------------------------------------------
(* C24: normalization is idempotent *)

\* C24: get_clean applied to a value get_clean returned returns that value.
C24_CleanIdempotent ==
    pc = "clean" => \A k \in 2..Len(cleans) : cleans[k] = cleans[k - 1]

\* a value with upper case and whitespace at both ends was normalized, and
\* the normalized value was normalized again
C24_Witness ==
    /\ pc = "clean"
    /\ heap[1].first_name = <<" ", "A", " ">>
    /\ Len(cleans) = 2
    /\ cleans[2] = a_str

----------------------------------------------------------------------------
(* C25: the assertions of find_duplicates_across *)

\* C25: with the four maps built by get_merge_info from the two lists, no
\* assertion of find_duplicates_across fires: the full key of the
\* representative each iteration is at is in an exact-match map, its
\* equivalence key is in a loose map, and the final `assert False` is not
\* reached.
C25_NoAssertionFires ==
    /\ pc # "assert_failed"
    /\ (pc = "across" /\ idx <= Len(all_members))
         => LET member == all_members[idx]
                key_in_all  == Member_hash_with(heap[member], None)
                key_in_some == Member_hash_with(heap[member], field_set)
            IN /\ key_in_all \in
                     (DOMAIN dicts.an_all) \cup (DOMAIN dicts.at_all)
               /\ key_in_some \in
                     (DOMAIN dicts.an_some) \cup (DOMAIN dicts.at_some)
               /\ across_branch(heap, member, field_set, dicts) # "assert"

\* the loop has run to its end over records that took the conflict branch
\* and the one-sided branch
C25_Witness ==
    /\ pc = "matched"
    /\ idx = Len(all_members) + 1
    /\ merge_conflicts # <<>>
    /\ needs_sync # <<>>

----------------------------------------------------------------------------
(* get_merge_info called with a lens that is not the module-level field_set *)

\* bound on the number of records the two sources hold together
MaxLensMembers == 2

\* as Init, with the argument equivalence_fields of get_merge_info and the
\* module-level field_set chosen independently of each other
InitLens ==
    /\ \E n_an, n_at \in 0..MaxLensMembers :
         /\ n_an + n_at <= MaxLensMembers
         /\ an_members = [k \in 1..n_an |-> k]
         /\ at_members = [k \in 1..n_at |-> n_an + k]
         /\ heap \in [1..(n_an + n_at) ->
                        UNION {SourceRecords(s, id) :
                                 s \in {AN, AT}, id \in 1..MaxLensMembers}]
         /\ \A id \in 1..(n_an + n_at) :
               /\ heap[id].source_name = (IF id <= n_an THEN AN ELSE AT)
               /\ heap[id].unique_id =
                     UniqueId(IF id <= n_an THEN id ELSE id - n_an)
    /\ field_set \in equivalence_fields
    /\ equivalence_fields_arg \in equivalence_fields
    /\ pc = "start"
    /\ dicts = <<>> /\ all_members = <<>> /\ idx = 0
    /\ merge_conflicts = <<>> /\ needs_sync = <<>> /\ up_to_date = <<>>
    /\ invoked = <<>> /\ pending = <<>> /\ entry_heap = <<>>
    /\ an_dups = <<>> /\ at_dups = <<>>
    /\ ci = 0 /\ unresolved = <<>> /\ wasResolved = <<>>
    /\ nsets = 0
    /\ NoAction
    /\ cleans = <<>> /\ actions = <<>> /\ handled = <<>>

NextLens ==
    \/ get_merge_info
    \/ find_duplicates_across

SpecLens == InitLens /\ [][NextLens]_vars

----------------------------------------------------------------------------
(* C26: the lens is a parameter *)

\* the four maps built under the lens fs
DictsUnder(fs) ==
    [an_all  |-> hash_members(heap, an_members, None),
     at_all  |-> hash_members(heap, at_members, None),
     an_some |-> hash_members(heap, an_members, fs),
     at_some |-> hash_members(heap, at_members, fs)]

\* the representatives that take `branch` under the lens fs
Taking(branch, fs) ==
    {m \in Range(all_members) :
        across_branch(heap, m, fs, DictsUnder(fs)) = branch}

\* the groups of more than one record of a list under the lens fs
DupsUnder(members, fs) ==
    LET hm == hash_members(heap, members, fs)
    IN {Range(hm[key]) : key \in {k \in DOMAIN hm : Len(hm[k]) > 1}}

\* C26: the results of get_merge_info(an, at, equivalence_fields, ...) are
\* those of its arguments, whatever the module-level field_set holds: the
\* duplicate groups, the conflicts, the one-sided and the up-to-date records
\* are the ones the lens given as argument yields.
C26_LensIsParameter ==
    pc = "matched"
        => /\ GroupSets(an_dups) = DupsUnder(an_members, equivalence_fields_arg)
           /\ GroupSets(at_dups) = DupsUnder(at_members, equivalence_fields_arg)
           /\ Range(needs_sync) = Taking("needs_sync", equivalence_fields_arg)
           /\ Range(up_to_date) = Taking("up_to_date", equivalence_fields_arg)
           /\ (merge_conflicts # <<>>)
                 <=> (Taking("conflict", equivalence_fields_arg) # {})

----------------------------------------------------------------------------
(* __main__: one pass of get_merge_info per lens, over the same records *)

\* bound on the number of records the two sources hold together
MaxRunMembers == 3

\* the lenses in the order of the loop of __main__
lens_order == <<<<"last_name", "first_name">>, <<"email_address">>>>

\* the last name and email address of the records a source can deliver
RunNames == {<<a_str, a_str>>, <<a_str, <<"b">>>>, <<<<" ", "A">>, <<"b">>>>}

InitRun ==
    /\ \E n_an, n_at \in 0..MaxRunMembers :
         /\ n_an + n_at <= MaxRunMembers
         /\ an_members = [k \in 1..n_an |-> k]
         /\ at_members = [k \in 1..n_at |-> n_an + k]
         /\ \E given \in [1..(n_an + n_at) -> RunNames] :
               heap = [id \in 1..(n_an + n_at) |->
                         Member(a_str, given[id][1], given[id][2], None, None,
                                IF id <= n_an THEN AN ELSE AT,
                                UniqueId(IF id <= n_an THEN id
                                         ELSE id - n_an))]
    /\ field_set = lens_order[1]
    /\ pc = "start"
    /\ dicts = <<>> /\ all_members = <<>> /\ idx = 0
    /\ merge_conflicts = <<>> /\ needs_sync = <<>> /\ up_to_date = <<>>
    /\ invoked = <<>> /\ pending = <<>> /\ entry_heap = <<>>
    /\ an_dups = <<>> /\ at_dups = <<>>
    /\ ci = 0 /\ unresolved = <<>> /\ wasResolved = <<>>
    /\ nsets = 0
    /\ NoAction
    /\ NoCalls

\* get_merge_info calls resolve_merge_conflicts with the conflicts that
\* find_duplicates_across returned
resolve_merge_conflicts ==
    /\ pc = "matched"
    /\ pc' = IF merge_conflicts = <<>> THEN "done" ELSE "resolving"
    /\ ci' = 1
    /\ invoked' = [c \in 1..Len(merge_conflicts) |-> <<>>]
    /\ unresolved' = <<>>
    /\ wasResolved' = <<>>
    /\ pending' = <<>>
    /\ entry_heap' = heap
    /\ UNCHANGED <<heap, Matching>>

\* get_merge_info returns and the loop of __main__ calls it with the next
\* lens, on the same record objects
next_field_set ==
    /\ pc = "done"
    /\ field_set = lens_order[1]
    /\ field_set' = lens_order[2]
    /\ equivalence_fields_arg' = lens_order[2]
    /\ pc' = "start"
    /\ dicts' = <<>> /\ all_members' = <<>> /\ idx' = 0
    /\ merge_conflicts' = <<>> /\ needs_sync' = <<>> /\ up_to_date' = <<>>
    /\ an_dups' = <<>> /\ at_dups' = <<>>
    /\ UNCHANGED <<heap, an_members, at_members, invoked, pending, entry_heap,
                   ci, unresolved, wasResolved, nsets, Applying, cleans,
                   actions, handled>>

NextRun ==
    \/ get_merge_info
    \/ find_duplicates_across
    \/ resolve_merge_conflicts
    \/ MissingFieldResolver
    \/ ManualResolver
    \/ ManualResolver_resolve_field
    \/ KeyboardInterrupt
    \/ next_field_set

SpecRun == InitRun /\ [][NextRun]_vars

----------------------------------------------------------------------------
(* C27: resolve and dirty members over a whole run *)

\* MergeConflict.resolve is about to be entered for conflict c
Entering(c) ==
    /\ pc = "resolving"
    /\ ci = c
    /\ c \in DOMAIN invoked
    /\ invoked[c] = <<>>

\* C27: over a whole run that goes through the lenses in order on the same
\* record objects, MergeConflict.resolve is never entered for a conflict
\* that has a dirty member, in the pass that made it dirty or in a later one.
C27_NeverEntersDirty ==
    \A c \in 1..Len(merge_conflicts) :
        Entering(c)
            => \A id \in Range(merge_conflicts[c].members) : ~heap[id].dirty

\* C27 for the first conflict of the pass of the second lens alone
C27_NextPassEntersClean ==
    (Entering(1) /\ field_set = lens_order[2])
        => \A id \in Range(merge_conflicts[1].members) : ~heap[id].dirty

----------------------------------------------------------------------------
(* C28: what a resolved conflict and the unresolved list hold *)

\* C28: whenever MergeConflict.resolve returned true for a conflict, by
\* MissingFieldResolver or by ManualResolver (a member chosen, a split, a
\* custom value), its members have equal values on every equality field;
\* and when resolve_merge_conflicts returns, its list holds the conflicts
\* resolve returned false for and the conflicts a quit skipped.
C28_ResolvedAgreeOthersUnresolved ==
    /\ \A c \in 1..Len(wasResolved) : wasResolved[c] => AllAgree(heap, c)
    /\ pc = "done"
         => unresolved =
               ReturnedFalse(Len(wasResolved) + 1)
                  \o SubSeq(merge_conflicts, Len(wasResolved) + 1,
                            Len(merge_conflicts))

\* the operator declined the first conflict, resolved the second, which
\* changed a record, and quit at the third
C28_Witness ==
    /\ pc = "done"
    /\ Len(merge_conflicts) = 3
    /\ Len(wasResolved) = 2
    /\ ~wasResolved[1]
    /\ wasResolved[2] /\ Len(invoked[2]) = Len(resolvers)
    /\ \E id \in Range(merge_conflicts[2].members) : heap[id].dirty
    /\ Len(unresolved) = 2

----------------------------------------------------------------------------
(* C29: the dirty flag and dirty_fields *)

\* C29: after any sequence of set() calls on a fresh record, the record is
\* dirty exactly when dirty_fields() is not empty, and no set() on a dirty
\* record makes it clean.
C29_DirtyIffDirtyFields ==
    pc = "records"
        => \A id \in DOMAIN heap :
              /\ heap[id].dirty <=> dirty_fields(heap[id]) # {}
              /\ heap[id].dirty
                    => \A f \in IdentityFields \cup MetadataFields :
                          \A v \in FieldValues :
                             LET m == set(heap[id], f, v)
                             IN m.dirty /\ dirty_fields(m) # {}

\* first_name was set to another value and then back to the value the
\* record was built with: the record is still dirty
C29_Witness ==
    /\ pc = "records"
    /\ nsets = 2
    /\ heap[1].dirty
    /\ dirty_fields(heap[1]) = {"first_name"}
    /\ [heap[1] EXCEPT !.dirty = FALSE, !.original_dict = <<>>]
          = Constructed(1)

----------------------------------------------------------------------------
(* do_actions.py: do_actions *)

\* bound on the length of the list of actions
MaxActions == 2

\* what handled notes for an action no connection was given
Skipped == <<"skipped">>

\* the source names of the members of the actions: the two connections'
\* and one that is neither
SourceNames == <<AN, AT, <<"airtable">>>>

\* do_actions handing every ActionNetwork action to an_connection, as in
\* the branch the source has commented out
connection_for_both(source_name) ==
    IF source_name = AT THEN AT
    ELSE IF source_name = AN THEN AN
    ELSE Skipped

\* the connection do_actions hands an action of a member of `source_name`
\* to, or Skipped
connection_for(source_name) ==
    IF source_name = AT THEN AT ELSE Skipped

\* one record per source name, and a list of up to MaxActions actions
InitDoActions ==
    /\ heap = [id \in 1..Len(SourceNames) |->
                 Member(a_str, a_str, a_str, None, None, SourceNames[id],
                        UniqueId(id))]
    /\ \E n \in 0..MaxActions :
          actions \in [1..n -> {Action(name, member) :
                                   name \in ActionNames,
                                   member \in 1..Len(SourceNames)}]
    /\ handled = <<>>
    /\ cleans = <<>>
    /\ field_set = None
    /\ equivalence_fields_arg = None
    /\ pc = "do_actions"
    /\ nsets = 0
    /\ Idle_matching
    /\ NoAction

\* one turn of the loop of do_actions: the action is printed and handed to
\* at_connection, or skipped; after the last action do_actions returns
do_actions ==
    /\ pc \in {"do_actions", "returned"}
    /\ IF Len(handled) = Len(actions)
       THEN /\ pc' = "finished"
            /\ UNCHANGED <<handled, Applying>>
       ELSE LET a == actions[Len(handled) + 1]
                c == connection_for(heap[a.member].source_name)
            IN /\ serialized' = serialize(a, heap)
               /\ handled' = Append(handled, [action |-> a, connection |-> c])
               /\ IF c = Skipped
                  THEN /\ pc' = "do_actions"
                       /\ UNCHANGED <<action, connection, try_count,
                                      responses, raised>>
                  ELSE /\ action' = a
                       /\ connection' = c
                       /\ try_count' = 0
                       /\ responses' = <<>>
                       /\ pc' = "do_action"
                       /\ UNCHANGED raised
    /\ UNCHANGED <<heap, an_members, at_members, field_set, dicts,
                   all_members, idx, merge_conflicts, needs_sync, up_to_date,
                   invoked, pending, entry_heap, an_dups, at_dups, ci,
                   unresolved, wasResolved, nsets, cleans,
                   equivalence_fields_arg, actions>>

NextDoActions ==
    \/ do_actions
    \/ do_action
    \/ request_helper

SpecDoActions == InitDoActions /\ [][NextDoActions]_vars

----------------------------------------------------------------------------
(* C30: which actions do_actions applies *)

\* C30: do_actions goes through the list in order and hands an action to a
\* connection exactly when its member's source_name is "AirTable", and then
\* to the AirTable connection; an action of any other source is skipped,
\* nothing being applied or raised for it; the ActionNetwork connection is
\* never called.
C30_OnlyAirTableApplied ==
    /\ Len(handled) <= Len(actions)
    /\ \A k \in 1..Len(handled) :
          /\ handled[k].action = actions[k]
          /\ handled[k].connection =
                IF heap[actions[k].member].source_name = AT THEN AT
                ELSE Skipped
    /\ connection # AN
    /\ pc \in {"do_action", "request", "returned", "raised"}
          => /\ handled # <<>>
             /\ action = actions[Len(handled)]
             /\ heap[action.member].source_name = AT
             /\ connection = AT
    /\ pc = "finished" => Len(handled) = Len(actions)

\* do_actions has gone through an ActionNetwork action, which it skipped,
\* and an AirTable action, which the AirTable connection applied
C30_Witness ==
    /\ pc = "finished"
    /\ Len(actions) = 2
    /\ heap[actions[1].member].source_name = AN
    /\ heap[actions[2].member].source_name = AT
    /\ handled[1].connection = Skipped
    /\ handled[2].connection = AT
    /\ responses # <<>>
    /\ raised = None

====
